---- MODULE Spec2Model ----
(***************************************************************************)
(* A model of the transit simulator: the route catalog and the operational *)
(* store of datasim.py, the live status synthesizer, the ETA predictor of  *)
(* ai_models.py with its start-up and its confidence heuristic, the        *)
(* journey planner of run_app.py, calls running on concurrent threads, and *)
(* the driver location tracking of main.py.                                *)
(*                                                                         *)
(* Conventions.                                                            *)
(*   - A Python optional argument is a sequence: << >> is None and <<v>>   *)
(*     is the supplied value v.                                            *)
(*   - Latitudes and longitudes are integers in units of 0.0001 degree,    *)
(*     distances in units of 0.1 km, confidences in units of 0.01.         *)
(*   - The outcome of a call is the record ret: raised is "None" for a     *)
(*     normal return and the exception name otherwise; value is what the   *)
(*     call returned.  call records the operation and its arguments.       *)
(*   - A random draw is a nondeterministic choice: random.choice over all  *)
(*     the elements; random.randint and random.uniform over the sample of  *)
(*     their range given by RandInt and Uniform (see Quantiles).           *)
(***************************************************************************)
EXTENDS Integers, Sequences, FiniteSets, TLC

VARIABLES
    store,         \* datasim.BUS_OPERATIONAL_STATUS: bus_id -> state record
    call,          \* the most recent call: [op |-> ..., arguments]
    ret,           \* its outcome: [raised |-> ..., value |-> ...]
    model_file,    \* the persisted model at model_path: present, absent, corrupt
    model,         \* TransportAIModel.model: "None" or "Ridge"
    model_loaded,  \* TransportAIModel.model_loaded
    eta_model,     \* run_app.eta_model: "None" or "Ridge"
    threads,       \* the calls in progress on concurrent threads: for each
                   \* thread its position (pc), arguments and locals
    bus_locations,     \* main.bus_locations: bus_id -> current location
    location_history,  \* main.location_history: bus_id -> list of points
    passenger_loads    \* main.passenger_loads: bus_id -> reported load

\* The dictionaries update_driver_location writes.
tracking == <<bus_locations, location_history, passenger_loads>>

vars == <<store, call, ret, model_file, model, model_loaded, eta_model, threads,
          tracking>>

----------------------------------------------------------------------------
(* Bounds of the model *)

\* Fleet size: the f"Bus-{i}" keys of the store are Bus-1..Bus-NumBuses
\* (the program builds 15 of them, datasim.py line 34).
NumBuses == 1

\* Fleet size of the planner's specification SpecPlan, in which two running
\* buses share a route (Bus-2 and Bus-4 on Route-1).
PlanBuses == 4

\* Fleet size of the specifications of concurrent calls.
RaceBuses == 2

\* The number of TransportAIModel objects constructed concurrently on one
\* model_path.
Loaders == 3

\* The buses of the operational store whose initial crowdedness is drawn
\* from every tier when the whole store is built; the later ones draw LIGHT.
DrawnBuses == 5

\* The number of location updates a driver session of the model sends.
MaxUpdates == 102

\* The buses other than Bus-1 report among the first OtherWindow and the
\* last OtherWindow updates of the session.
OtherWindow == 1

----------------------------------------------------------------------------
(* Route catalog: datasim.ROUTE_METADATA *)

Stop(n, la, lo, i) == [name |-> n, lat |-> la, lon |-> lo, index |-> i]

ROUTE_METADATA ==
    [r \in {"Route-1", "Route-2"} |->
        IF r = "Route-1"
        THEN [name  |-> "City Center to University Loop",
              stops |-> << Stop("Town Hall",       269180, 757900, 0),
                           Stop("Main Market",     269250, 757950, 1),
                           Stop("University Gate", 269320, 757850, 2),
                           Stop("Hospital Square", 269200, 757780, 3) >>]
        ELSE [name  |-> "Railway Station Shuttle",
              stops |-> << Stop("Railway Station", 269100, 758050, 0),
                           Stop("Industrial Area", 269000, 758150, 1),
                           Stop("Airport Road",    268950, 758000, 2) >>]]

RouteIds == DOMAIN ROUTE_METADATA

\* The names of the stops of a stop list, in list order.
StopNames(stops) == [k \in 1..Len(stops) |-> stops[k].name]

Range(s) == {s[k] : k \in 1..Len(s)}

\* [s for s in stops if P(s)]: the sub-list of the elements satisfying P.
RECURSIVE FilterStops(_, _, _)
FilterStops(stops, lo, hi) ==
    IF stops = << >> THEN << >>
    ELSE LET s    == Head(stops)
             rest == FilterStops(Tail(stops), lo, hi)
         IN  IF lo < s.index /\ s.index <= hi THEN <<s>> \o rest ELSE rest

\* next(s['index'] for s in stops if s['name'] == name): <<index>> of the
\* first stop of that name, or << >> when the generator is exhausted and
\* next raises StopIteration.
RECURSIVE NextIndex(_, _)
NextIndex(stops, name) ==
    IF stops = << >> THEN << >>
    ELSE IF Head(stops).name = name THEN << Head(stops).index >>
    ELSE NextIndex(Tail(stops), name)

Min(a, b) == IF a <= b THEN a ELSE b
Max(a, b) == IF a >= b THEN a ELSE b

Returns(v) == [raised |-> "None", value |-> v]
Raises(e)  == [raised |-> e, value |-> << >>]

\* Mutant: the interval is taken from start to end as given (no min/max).
GetStopsInOrderDirected(route_id, start_name, end_name) ==
    IF route_id \notin DOMAIN ROUTE_METADATA THEN Returns(<< >>)
    ELSE LET stops       == ROUTE_METADATA[route_id].stops
             start_index == NextIndex(stops, start_name)
             end_index   == NextIndex(stops, end_name)
         IN  IF start_index = << >> \/ end_index = << >>
             THEN Returns(<< >>)
             ELSE Returns(FilterStops(stops, start_index[1], end_index[1]))

\* Mutant: the interval is closed on the left (the boarding stop is counted).
GetStopsInOrderClosed(route_id, start_name, end_name) ==
    IF route_id \notin DOMAIN ROUTE_METADATA THEN Returns(<< >>)
    ELSE LET stops       == ROUTE_METADATA[route_id].stops
             start_index == NextIndex(stops, start_name)
             end_index   == NextIndex(stops, end_name)
         IN  IF start_index = << >> \/ end_index = << >>
             THEN Returns(<< >>)
             ELSE Returns(FilterStops(stops,
                                      Min(start_index[1], end_index[1]) - 1,
                                      Max(start_index[1], end_index[1])))

\* Mutant: StopIteration is not caught.
GetStopsInOrderNoExcept(route_id, start_name, end_name) ==
    IF route_id \notin DOMAIN ROUTE_METADATA THEN Returns(<< >>)
    ELSE LET stops       == ROUTE_METADATA[route_id].stops
             start_index == NextIndex(stops, start_name)
             end_index   == NextIndex(stops, end_name)
         IN  IF start_index = << >> \/ end_index = << >>
             THEN Raises("StopIteration")
             ELSE Returns(FilterStops(stops,
                                      Min(start_index[1], end_index[1]),
                                      Max(start_index[1], end_index[1])))

\* Mutant: an unknown route falls back to the default route, as the
\* synthesizer does.
GetStopsInOrderDefaultRoute(route_id, start_name, end_name) ==
    LET route       == IF route_id \in DOMAIN ROUTE_METADATA
                       THEN ROUTE_METADATA[route_id]
                       ELSE ROUTE_METADATA["Route-1"]
        stops       == route.stops
        start_index == NextIndex(stops, start_name)
        end_index   == NextIndex(stops, end_name)
    IN  IF start_index = << >> \/ end_index = << >>
        THEN Returns(<< >>)
        ELSE Returns(FilterStops(stops,
                                 Min(start_index[1], end_index[1]),
                                 Max(start_index[1], end_index[1])))

\* datasim.get_stops_in_order
GetStopsInOrder(route_id, start_name, end_name) ==
    IF route_id \notin DOMAIN ROUTE_METADATA THEN Returns(<< >>)
    ELSE LET stops       == ROUTE_METADATA[route_id].stops
             start_index == NextIndex(stops, start_name)
             end_index   == NextIndex(stops, end_name)
         IN  IF start_index = << >> \/ end_index = << >>
             THEN Returns(<< >>)          \* except StopIteration: return []
             ELSE Returns(FilterStops(stops,
                                      Min(start_index[1], end_index[1]),
                                      Max(start_index[1], end_index[1])))

----------------------------------------------------------------------------
(* Operational store: datasim.BUS_OPERATIONAL_STATUS *)

\* f"Bus-{i}"
BusId(i) == "Bus-" \o ToString(i)

\* f"Route-{k}"
RouteId(k) == "Route-" \o ToString(k)

\* The tiers random.choice draws the initial crowdedness_level from.
Tiers == {"LIGHT", "MODERATE", "HEAVY"}

\* for i in range(1, 16): the buses of the store the module builds.
FleetSize == 15

\* Mutant: the routes are assigned the other way round, f"Route-{2 - i % 2}".
InitialStateEvenOnRoute2(i, c) ==
    [is_running        |-> (i % 3 # 0),
     status_message    |-> IF i % 3 # 0 THEN "On Route" ELSE "Off Duty",
     crowdedness_level |-> c,
     assigned_route_id |-> RouteId(2 - (i % 2))]

\* The entry the module builds for Bus-i; c is the tier random.choice drew.
InitialState(i, c) ==
    [is_running        |-> (i % 3 # 0),
     status_message    |-> IF i % 3 # 0 THEN "On Route" ELSE "Off Duty",
     crowdedness_level |-> c,
     assigned_route_id |-> RouteId((i % 2) + 1)]

\* The store built from the tiers c[1..n] drawn for Bus-1..Bus-n.
InitialStore(n, c) ==
    LET idx(b) == CHOOSE i \in 1..n : BusId(i) = b
    IN  [b \in {BusId(i) : i \in 1..n} |-> InitialState(idx(b), c[idx(b)])]

\* Python truthiness of an optional boolean argument.
Truthy(opt) == opt # << >> /\ opt[1] = TRUE

\* Mutant: the fields are tested for truthiness instead of "is not None",
\* so a supplied is_running=False is taken for "not supplied".
ApplyFieldsTruthiness(state, is_running, status_message, crowdedness_level, pick) ==
    LET s1 == IF Truthy(is_running)
              THEN [state EXCEPT !.is_running = is_running[1]] ELSE state
        s2 == IF status_message # << >>
              THEN [s1 EXCEPT !.status_message = status_message[1]] ELSE s1
        s3 == IF crowdedness_level # << >>
              THEN [s2 EXCEPT !.crowdedness_level = crowdedness_level[1]] ELSE s2
    IN  IF s3.assigned_route_id = "N/A" /\ Truthy(is_running)
        THEN [s3 EXCEPT !.assigned_route_id = RouteId(pick)] ELSE s3

\* Mutant: a bus the call takes off duty loses its route.
ApplyFieldsUnassigns(state, is_running, status_message, crowdedness_level, pick) ==
    LET s1 == IF is_running # << >>
              THEN [state EXCEPT !.is_running = is_running[1]] ELSE state
        s2 == IF status_message # << >>
              THEN [s1 EXCEPT !.status_message = status_message[1]] ELSE s1
        s3 == IF crowdedness_level # << >>
              THEN [s2 EXCEPT !.crowdedness_level = crowdedness_level[1]] ELSE s2
    IN  IF s3.assigned_route_id = "N/A" /\ Truthy(is_running)
        THEN [s3 EXCEPT !.assigned_route_id = RouteId(pick)]
        ELSE IF is_running = <<FALSE>>
        THEN [s3 EXCEPT !.assigned_route_id = "N/A"] ELSE s3

\* Mutant: the route is re-assigned whenever it was "N/A", whether or not
\* the call sets the bus running.
ApplyFieldsAlwaysReassigns(state, is_running, status_message, crowdedness_level, pick) ==
    LET s1 == IF is_running # << >>
              THEN [state EXCEPT !.is_running = is_running[1]] ELSE state
        s2 == IF status_message # << >>
              THEN [s1 EXCEPT !.status_message = status_message[1]] ELSE s1
        s3 == IF crowdedness_level # << >>
              THEN [s2 EXCEPT !.crowdedness_level = crowdedness_level[1]] ELSE s2
    IN  IF s3.assigned_route_id = "N/A"
        THEN [s3 EXCEPT !.assigned_route_id = RouteId(pick)] ELSE s3

\* The body of update_bus_operational_status for a known bus: the state of
\* the bus after the call.  pick is the value random.choice([1, 2]) returns
\* if it is called.
ApplyFields(state, is_running, status_message, crowdedness_level, pick) ==
    LET s1 == IF is_running # << >>
              THEN [state EXCEPT !.is_running = is_running[1]] ELSE state
        s2 == IF status_message # << >>
              THEN [s1 EXCEPT !.status_message = status_message[1]] ELSE s1
        s3 == IF crowdedness_level # << >>
              THEN [s2 EXCEPT !.crowdedness_level = crowdedness_level[1]] ELSE s2
    IN  IF s3.assigned_route_id = "N/A" /\ Truthy(is_running)
        THEN [s3 EXCEPT !.assigned_route_id = RouteId(pick)] ELSE s3

\* Mutant: a bus the call takes off duty is deleted from the store.
UpdateRetiresBus(s, bus_id, is_running, status_message, crowdedness_level, pick) ==
    IF bus_id \in DOMAIN s
    THEN [store |-> IF is_running = <<FALSE>>
                    THEN [b \in DOMAIN s \ {bus_id} |-> s[b]]
                    ELSE [s EXCEPT ![bus_id] =
                             ApplyFields(s[bus_id], is_running, status_message,
                                         crowdedness_level, pick)],
          ret   |-> Returns(TRUE)]
    ELSE [store |-> s, ret |-> Returns(FALSE)]

\* Mutant: an unknown bus_id gets an entry (the store is written through
\* setdefault instead of being tested for membership).
UpdateCreatesEntry(s, bus_id, is_running, status_message, crowdedness_level, pick) ==
    LET fresh == [is_running        |-> FALSE,
                  status_message    |-> "Off Duty",
                  crowdedness_level |-> "LIGHT",
                  assigned_route_id |-> "N/A"]
        state == IF bus_id \in DOMAIN s THEN s[bus_id] ELSE fresh
        after == ApplyFields(state, is_running, status_message,
                             crowdedness_level, pick)
    IN  [store |-> [b \in DOMAIN s \cup {bus_id} |->
                       IF b = bus_id THEN after ELSE s[b]],
         ret   |-> Returns(bus_id \in DOMAIN s)]

\* datasim.update_bus_operational_status on the store s: the store after
\* the call and the call's outcome.
UpdateBusOperationalStatus(s, bus_id, is_running, status_message, crowdedness_level, pick) ==
    IF bus_id \in DOMAIN s
    THEN [store |-> [s EXCEPT ![bus_id] =
                        ApplyFields(s[bus_id], is_running, status_message,
                                    crowdedness_level, pick)],
          ret   |-> Returns(TRUE)]
    ELSE [store |-> s, ret |-> Returns(FALSE)]

----------------------------------------------------------------------------
(* Live status synthesizer: datasim.generate_live_bus_status *)

\* The numeric draws of one bus (random.randint, random.uniform) are sampled
\* jointly at the two ends of their ranges: all at the minimum (q = 0) or
\* all at the maximum (q = 1).
Quantiles == {0, 1}

\* random.randint(lo, hi) and random.uniform(lo, hi) at quantile q.
RandInt(lo, hi, q) == lo + q * (hi - lo)
Uniform(lo, hi, q) == lo + q * (hi - lo)

\* Mutant: the stored status_message is not carried into the depot
\* snapshot, which reports the default message.
OffDutyEntryDefaultMessage(bus_id, route_key, status_message, crowdedness) ==
    [bus_id              |-> bus_id,
     route_id            |-> route_key,
     is_running          |-> FALSE,
     status_message      |-> "Off Duty",
     crowdedness         |-> crowdedness,
     location            |-> [latitude |-> 0, longitude |-> 0],
     next_stop_name      |-> "Depot",
     passengers          |-> 0,
     speed_kmh           |-> 0,
     distance_to_stop_km |-> 0,
     current_stop        |-> "Depot"]

\* The static entry of an off-duty bus.
OffDutyEntry(bus_id, route_key, status_message, crowdedness) ==
    [bus_id              |-> bus_id,
     route_id            |-> route_key,
     is_running          |-> FALSE,
     status_message      |-> status_message,
     crowdedness         |-> crowdedness,
     location            |-> [latitude |-> 0, longitude |-> 0],
     next_stop_name      |-> "Depot",
     passengers          |-> 0,
     speed_kmh           |-> 0,
     distance_to_stop_km |-> 0,
     current_stop        |-> "Depot"]

\* Mutant: the MODERATE and HEAVY draws are exchanged in the table.
PassengersSwapped(crowdedness_level, light, moderate, heavy) ==
    CASE crowdedness_level = "LIGHT"    -> light
      [] crowdedness_level = "MODERATE" -> heavy
      [] crowdedness_level = "HEAVY"    -> moderate
      [] OTHER                          -> 20

\* {"LIGHT": randint(5, 20), "MODERATE": randint(30, 45),
\*  "HEAVY": randint(50, 60)}.get(crowdedness_level, 20), given the three
\* values drawn.
Passengers(crowdedness_level, light, moderate, heavy) ==
    CASE crowdedness_level = "LIGHT"    -> light
      [] crowdedness_level = "MODERATE" -> moderate
      [] crowdedness_level = "HEAVY"    -> heavy
      [] OTHER                          -> 20

\* Mutant: the list of candidates for the next stop is not filtered.
OtherStopsUnfiltered(stops, name) == stops

\* [s for s in stops if s['name'] != name]
RECURSIVE OtherStops(_, _)
OtherStops(stops, name) ==
    IF stops = << >> THEN << >>
    ELSE IF Head(stops).name # name
         THEN <<Head(stops)>> \o OtherStops(Tail(stops), name)
         ELSE OtherStops(Tail(stops), name)

\* The entry of a running bus: current_stop and next_stop are the stops
\* random.choice drew, q the quantile of the numeric draws.  The entry's
\* timestamp (the wall clock at synthesis) is left out.
RunningEntry(bus_id, route_key, op_state, current_stop, next_stop, q) ==
    [bus_id              |-> bus_id,
     route_id            |-> route_key,
     is_running          |-> TRUE,
     status_message      |-> op_state.status_message,
     current_stop        |-> current_stop.name,
     next_stop_name      |-> next_stop.name,
     next_stop_index     |-> next_stop.index,
     location            |-> [latitude  |-> current_stop.lat + Uniform(-5, 5, q),
                              longitude |-> current_stop.lon + Uniform(-5, 5, q)],
     speed_kmh           |-> RandInt(15, 50, q),
     passengers          |-> Passengers(op_state.crowdedness_level,
                                        RandInt(5, 20, q), RandInt(30, 45, q),
                                        RandInt(50, 60, q)),
     crowdedness         |-> op_state.crowdedness_level,
     distance_to_stop_km |-> Uniform(8, 45, q)]

\* Mutant: an assignment outside the catalog falls back to Route-2.
LiveEntriesLastRoute(s, i) ==
    LET bus_id     == BusId(i)
        known      == bus_id \in DOMAIN s
        route_key  == IF known THEN s[bus_id].assigned_route_id ELSE "Route-1"
        route_data == IF route_key \in DOMAIN ROUTE_METADATA
                      THEN ROUTE_METADATA[route_key]
                      ELSE ROUTE_METADATA["Route-2"]
    IN  IF ~known
        THEN {OffDutyEntry(bus_id, route_key, "Off Duty", "LIGHT")}
        ELSE IF ~s[bus_id].is_running
        THEN {OffDutyEntry(bus_id, route_key, s[bus_id].status_message,
                           s[bus_id].crowdedness_level)}
        ELSE UNION {
               LET next_stop_list == OtherStops(route_data.stops, current_stop.name)
                   next_stops     == IF next_stop_list # << >>
                                     THEN Range(next_stop_list)
                                     ELSE {current_stop}
               IN  {RunningEntry(bus_id, route_key, s[bus_id],
                                 current_stop, next_stop, q) :
                        next_stop \in next_stops, q \in Quantiles}
               : current_stop \in Range(route_data.stops)}

\* One iteration of the loop: the entries the synthesizer can produce for
\* Bus-i from the store s, over the random draws.
LiveEntries(s, i) ==
    LET bus_id     == BusId(i)
        known      == bus_id \in DOMAIN s
        route_key  == IF known THEN s[bus_id].assigned_route_id ELSE "Route-1"
        route_data == IF route_key \in DOMAIN ROUTE_METADATA
                      THEN ROUTE_METADATA[route_key]
                      ELSE ROUTE_METADATA["Route-1"]
    IN  IF ~known
        THEN {OffDutyEntry(bus_id, route_key, "Off Duty", "LIGHT")}
        ELSE IF ~s[bus_id].is_running
        THEN {OffDutyEntry(bus_id, route_key, s[bus_id].status_message,
                           s[bus_id].crowdedness_level)}
        ELSE UNION {
               LET next_stop_list == OtherStops(route_data.stops, current_stop.name)
                   next_stops     == IF next_stop_list # << >>
                                     THEN Range(next_stop_list)
                                     ELSE {current_stop}
               IN  {RunningEntry(bus_id, route_key, s[bus_id],
                                 current_stop, next_stop, q) :
                        next_stop \in next_stops, q \in Quantiles}
               : current_stop \in Range(route_data.stops)}

\* Mutant: the loop is range(1, num_buses) and leaves the last bus out.
RECURSIVE GenerateLiveBusStatusShort(_, _)
GenerateLiveBusStatusShort(s, num_buses) ==
    IF num_buses <= 1 THEN {<< >>}
    ELSE {IF status = << >> THEN BusId(num_buses - 1) :> e
                            ELSE status @@ (BusId(num_buses - 1) :> e) :
             status \in GenerateLiveBusStatusShort(s, num_buses - 1),
             e \in LiveEntries(s, num_buses - 1)}

\* The snapshots generate_live_bus_status(num_buses) can return from the
\* store s: one entry for each of Bus-1..Bus-num_buses.
RECURSIVE GenerateLiveBusStatus(_, _)
GenerateLiveBusStatus(s, num_buses) ==
    IF num_buses <= 0 THEN {<< >>}
    ELSE {IF status = << >> THEN BusId(num_buses) :> e
                            ELSE status @@ (BusId(num_buses) :> e) :
             status \in GenerateLiveBusStatus(s, num_buses - 1),
             e \in LiveEntries(s, num_buses)}

----------------------------------------------------------------------------
(* ETA predictor: ai_models.TransportAIModel *)

\* load_model, with train_model and save_model inlined, from the persisted
\* file, model and model_loaded given; saved tells whether joblib.dump
\* succeeds should the model be trained.  When the file exists and loads,
\* the model is marked loaded; otherwise (no file, or joblib.load raises) a
\* model is trained and saved, and model_loaded is left as it was.
LoadModel(file, m, loaded, saved) ==
    IF file = "present"
    THEN [model_file |-> file, model |-> "Ridge", model_loaded |-> TRUE]
    ELSE [model_file   |-> IF saved THEN "present" ELSE file,
          model        |-> "Ridge",
          model_loaded |-> loaded]

\* The regression's raw output self.model.predict(features)[0], in 0.01
\* minute: the fitted coefficients are not modelled, the output is any of
\* these values.
RawPredictions == {-250, 0, 99, 1234}

\* round(x, 1) of x >= 0 given in 0.01: the result in 0.1 (no value above
\* is a tie).
RoundTenths(x) == (x + 5) \div 10

\* Mutant: the raw output is rounded without the floor of one minute.
EtaMinutesNoFloor(raw) == RoundTenths(raw)

\* predict_eta from the raw output on: max(1, eta) rounded to one decimal,
\* in 0.1 minute.
EtaMinutes(raw) == RoundTenths(Max(100, raw))

\* Mutant: the score is reported in percent instead of as a fraction.
ConfidenceScorePercent(speed_kmh, distance_km, traffic_factor) ==
    LET base == 70
        c1 == IF 20 <= speed_kmh /\ speed_kmh <= 50 THEN base + 10
              ELSE IF speed_kmh < 10 \/ speed_kmh > 70 THEN base - 10
              ELSE base
        c2 == IF 50 <= distance_km /\ distance_km <= 300 THEN c1 + 10
              ELSE IF distance_km < 10 \/ distance_km > 500 THEN c1 - 10
              ELSE c1
        c3 == IF 80 <= traffic_factor /\ traffic_factor <= 120 THEN c2 + 5
              ELSE IF traffic_factor > 200 THEN c2 - 10
              ELSE c2
    IN  100 * Max(30, Min(95, c3))

\* The confidence heuristic of predict_eta_with_confidence, in 0.01:
\* speed in km/h, distance in 0.1 km, traffic factor in 0.01.  The final
\* round(confidence, 2) leaves a multiple of 0.01 as it is.
ConfidenceScore(speed_kmh, distance_km, traffic_factor) ==
    LET base == 70
        c1 == IF 20 <= speed_kmh /\ speed_kmh <= 50 THEN base + 10
              ELSE IF speed_kmh < 10 \/ speed_kmh > 70 THEN base - 10
              ELSE base
        c2 == IF 50 <= distance_km /\ distance_km <= 300 THEN c1 + 10
              ELSE IF distance_km < 10 \/ distance_km > 500 THEN c1 - 10
              ELSE c1
        c3 == IF 80 <= traffic_factor /\ traffic_factor <= 120 THEN c2 + 5
              ELSE IF traffic_factor > 200 THEN c2 - 10
              ELSE c2
    IN  Max(30, Min(95, c3))

\* Mutant: heavy traffic costs 0.2 of confidence instead of 0.1.
ConfidenceHeavyTraffic(speed_kmh, distance_km, traffic_factor) ==
    LET base == 70
        c1 == IF 20 <= speed_kmh /\ speed_kmh <= 50 THEN base + 10
              ELSE IF speed_kmh < 10 \/ speed_kmh > 70 THEN base - 10
              ELSE base
        c2 == IF 50 <= distance_km /\ distance_km <= 300 THEN c1 + 10
              ELSE IF distance_km < 10 \/ distance_km > 500 THEN c1 - 10
              ELSE c1
    IN  IF 80 <= traffic_factor /\ traffic_factor <= 120 THEN c2 + 5
        ELSE IF traffic_factor > 200 THEN c2 - 20
        ELSE c2

\* The confidence of predict_eta_with_confidence as it stands before the
\* clamp max(0.3, min(0.95, confidence)), in 0.01.
Confidence(speed_kmh, distance_km, traffic_factor) ==
    LET base == 70
        c1 == IF 20 <= speed_kmh /\ speed_kmh <= 50 THEN base + 10
              ELSE IF speed_kmh < 10 \/ speed_kmh > 70 THEN base - 10
              ELSE base
        c2 == IF 50 <= distance_km /\ distance_km <= 300 THEN c1 + 10
              ELSE IF distance_km < 10 \/ distance_km > 500 THEN c1 - 10
              ELSE c1
    IN  IF 80 <= traffic_factor /\ traffic_factor <= 120 THEN c2 + 5
        ELSE IF traffic_factor > 200 THEN c2 - 10
        ELSE c2

\* TransportAIModel.predict_eta: raw is the regression's output.
PredictEta(m, loaded, raw) ==
    IF ~loaded \/ m = "None"
    THEN Raises("Exception")
    ELSE Returns(EtaMinutes(raw))

\* TransportAIModel.predict_eta_with_confidence.
PredictEtaWithConfidence(m, loaded, speed_kmh, distance_km, traffic_factor, raw) ==
    IF ~loaded \/ m = "None"
    THEN Raises("Exception")
    ELSE LET eta == PredictEta(m, loaded, raw)
         IN  IF eta.raised # "None" THEN eta
             ELSE Returns([eta_minutes      |-> eta.value,
                           confidence_score |-> ConfidenceScore(speed_kmh,
                                                   distance_km, traffic_factor),
                           input_features   |-> [speed_kmh      |-> speed_kmh,
                                                 distance_km    |-> distance_km,
                                                 traffic_factor |-> traffic_factor]])

----------------------------------------------------------------------------
(* Journey planner: run_app.py *)

\* Times inside the planner are integers in units of 0.01 minute, the
\* distance to the boarding stop in units of 0.1 km.  A time formatted with
\* one decimal (the text of f"{x:.1f}") is the integer number of tenths it
\* shows.

\* eta_model.predict([[speed]])[0], the minutes to cover one km, in 0.01
\* minute: a linear function of the speed.  The coefficients are those of
\* one fit, which gives 4 minutes at 15 km/h and a negative time from
\* 44 km/h on.
PerKmPrediction(speed) == 610 - 14 * speed

\* Mutant: the fallback divides by the speed as it is given and has no floor.
PlannerPredictEtaUnguarded(m, speed, distance) ==
    IF m = "None"
    THEN IF speed = 0 THEN Raises("ZeroDivisionError")
         ELSE Returns((600 * distance) \div speed)
    ELSE Returns(Max(50, (PerKmPrediction(speed) * distance) \div 10))

\* ai_models.predict_eta(model, speed, distance), the distance-scaling ETA
\* of the planner: with no model, 60 * distance / max(speed, 1) with a floor
\* of one minute; with a model, its prediction for one km scaled by the
\* distance; the result has a floor of half a minute.  It raises nothing.
PlannerPredictEta(m, speed, distance) ==
    LET eta == IF m = "None"
               THEN Max(100, (600 * distance) \div Max(speed, 1))
               ELSE (PerKmPrediction(speed) * distance) \div 10
    IN  Returns(Max(50, eta))

\* mock_predict_eta(speed, distance), with the global eta_model it reads.
MockPredictEta(m, speed, distance) == PlannerPredictEta(m, speed, distance)

\* Mutant: the boarding stop is counted among the stops to travel.
CalculateJourneyTimeCountsStart(m, speed, dist_to_start_km, start_name, end_name, route_id, per_stop) ==
    LET eta_to_start     == MockPredictEta(m, speed, dist_to_start_km).value
        stops_in_between == GetStopsInOrder(route_id, start_name, end_name).value
        travel_time_ab   == (Len(stops_in_between) + 1) * per_stop
    IN  <<eta_to_start, eta_to_start + travel_time_ab>>

\* calculate_journey_time: per_stop is the one value random.uniform(4, 8)
\* returns in the call.  The result is (eta_to_start, total_journey_time).
CalculateJourneyTime(m, speed, dist_to_start_km, start_name, end_name, route_id, per_stop) ==
    LET eta_to_start     == MockPredictEta(m, speed, dist_to_start_km).value
        stops_in_between == GetStopsInOrder(route_id, start_name, end_name).value
        travel_time_ab   == Len(stops_in_between) * per_stop
    IN  <<eta_to_start, eta_to_start + travel_time_ab>>

\* f"{x:.1f}" of a time x >= 0: the tenths its text shows.  (No time of the
\* model lies halfway between two tenths.)
FormatTenths(x) == RoundTenths(x)

\* float(text) of a text with one decimal, in 0.01 minute.
Float(text) == text * 10

\* The fields of a snapshot entry that get_route_plan reads.
PlanFields(e) ==
    [bus_id       |-> e.bus_id,
     route_id     |-> e.route_id,
     is_running   |-> e.is_running,
     speed_kmh    |-> e.speed_kmh,
     crowdedness  |-> e.crowdedness,
     current_stop |-> e.current_stop]

\* The test of the outer loop of get_route_plan: the route has both stops.
RouteHasBoth(route_id, start, end) ==
    LET stop_names == Range(StopNames(ROUTE_METADATA[route_id].stops))
    IN  start \in stop_names /\ end \in stop_names

\* Mutant: the inner loop does not test is_running.
OnRouteOffDuty(bus_info, route_id) ==
    bus_info.route_id = route_id

\* The test of the inner loop: the bus is reported on the route and running.
OnRoute(bus_info, route_id) ==
    bus_info.route_id = route_id /\ bus_info.is_running

\* Both tests: a suggestion is built for the bus on the route.
Serves(bus_info, route_id, start, end) ==
    RouteHasBoth(route_id, start, end) /\ OnRoute(bus_info, route_id)

\* The snapshots live_data the one call generate_live_bus_status(num_buses)
\* of a request can return, reduced to the fields the request reads.  Of a
\* bus that serves no route of the request the planner reads route_id and
\* is_running only, which the store fixes: one entry stands for all the
\* synthesizer can draw for it.
RECURSIVE PlanSnapshots(_, _, _, _)
PlanSnapshots(s, num_buses, start, end) ==
    IF num_buses <= 0 THEN {<< >>}
    ELSE LET all   == LiveEntries(s, num_buses)
             any   == CHOOSE e \in all : TRUE
             read  == IF \E r \in RouteIds : Serves(any, r, start, end)
                      THEN {PlanFields(e) : e \in all}
                      ELSE {PlanFields(any)}
         IN  {IF status = << >> THEN BusId(num_buses) :> e
                                 ELSE status @@ (BusId(num_buses) :> e) :
                 status \in PlanSnapshots(s, num_buses - 1, start, end),
                 e \in read}

\* The suggestion appended for a bus that serves the route; q is the
\* quantile of its draws random.uniform(0.5, 3.0) and random.uniform(4, 8).
Suggestion(m, route_id, bus_info, start, end, q) ==
    LET speed            == bus_info.speed_kmh
        dist_to_start_km == Uniform(5, 30, q)
        times == CalculateJourneyTime(m, speed, dist_to_start_km, start, end,
                     route_id, Uniform(400, 800, q))
    IN  [route_id          |-> route_id,
         bus_id            |-> bus_info.bus_id,
         eta_to_start_min  |-> FormatTenths(times[1]),
         total_journey_min |-> FormatTenths(times[2]),
         crowdedness       |-> bus_info.crowdedness,
         currentStop       |-> bus_info.current_stop,
         endStop           |-> end]

\* The inner loop, over Bus-i..Bus-num_buses in the order of the snapshot.
RECURSIVE BusLoop(_, _, _, _, _, _, _, _)
BusLoop(m, live_data, route_id, start, end, draws, i, num_buses) ==
    IF i > num_buses THEN << >>
    ELSE LET bus_info == live_data[BusId(i)]
             rest     == BusLoop(m, live_data, route_id, start, end, draws,
                                 i + 1, num_buses)
         IN  IF OnRoute(bus_info, route_id)
             THEN <<Suggestion(m, route_id, bus_info, start, end,
                               draws[BusId(i)])>> \o rest
             ELSE rest

\* The outer loop, over the routes in the order of the catalog.
RECURSIVE RouteLoop(_, _, _, _, _, _, _)
RouteLoop(m, live_data, start, end, draws, k, num_buses) ==
    IF RouteId(k) \notin RouteIds THEN << >>
    ELSE (IF RouteHasBoth(RouteId(k), start, end)
          THEN BusLoop(m, live_data, RouteId(k), start, end, draws, 1, num_buses)
          ELSE << >>)
         \o RouteLoop(m, live_data, start, end, draws, k + 1, num_buses)

\* Mutant: the list is sorted by decreasing total.
RECURSIVE InsertSortedDescending(_, _)
InsertSortedDescending(sorted, x) ==
    IF sorted = << >> THEN <<x>>
    ELSE IF Float(Head(sorted).total_journey_min) >= Float(x.total_journey_min)
    THEN <<Head(sorted)>> \o InsertSortedDescending(Tail(sorted), x)
    ELSE <<x>> \o sorted

\* One step of the stable sort: x goes behind every suggestion whose key
\* float(total_journey_min) is not greater than its own.
RECURSIVE InsertSorted(_, _)
InsertSorted(sorted, x) ==
    IF sorted = << >> THEN <<x>>
    ELSE IF Float(Head(sorted).total_journey_min) <= Float(x.total_journey_min)
    THEN <<Head(sorted)>> \o InsertSorted(Tail(sorted), x)
    ELSE <<x>> \o sorted

\* results.sort(key=lambda x: float(x['total_journey_min'])).
RECURSIVE SortByTotal(_)
SortByTotal(results) ==
    IF results = << >> THEN << >>
    ELSE InsertSorted(SortByTotal(SubSeq(results, 1, Len(results) - 1)),
                      results[Len(results)])

\* Python truthiness of an optional string argument.
TruthyText(opt) == opt # << >> /\ opt[1] # ""

\* Mutant: a request that matches nothing is answered 404.
GetRoutePlanNotFound(m, live_data, num_buses, start, end, draws) ==
    IF ~TruthyText(start) \/ ~TruthyText(end)
    THEN Returns([status |-> 400])
    ELSE LET results == RouteLoop(m, live_data, start[1], end[1], draws, 1,
                                  num_buses)
         IN  IF results = << >> THEN Returns([status |-> 404])
             ELSE Returns([status      |-> 200,
                           start       |-> start[1],
                           end         |-> end[1],
                           suggestions |-> SortByTotal(results)])

\* get_route_plan from the snapshot live_data the handler took: the status
\* code and, for 200, the body of the response.
GetRoutePlan(m, live_data, num_buses, start, end, draws) ==
    IF ~TruthyText(start) \/ ~TruthyText(end)
    THEN Returns([status |-> 400])
    ELSE LET results == RouteLoop(m, live_data, start[1], end[1], draws, 1,
                                  num_buses)
         IN  Returns([status      |-> 200,
                      start       |-> start[1],
                      end         |-> end[1],
                      suggestions |-> SortByTotal(results)])

----------------------------------------------------------------------------
(* Driver location tracking: main.update_driver_location *)

\* "Keep only last 100 location points".
HistoryLimit == 100

\* d[k] = v on a dictionary d.
Put(d, k, v) == IF d = << >> THEN k :> v ELSE (k :> v) @@ d

\* d.get(k, default)
Get(d, k, default) == IF k \in DOMAIN d THEN d[k] ELSE default

\* Mutant: the slice is [:n], the oldest points.
FirstN(points, n) ==
    IF Len(points) > n THEN SubSeq(points, 1, n) ELSE points

\* points[-n:] for n > 0.
LastN(points, n) ==
    IF Len(points) > n THEN SubSeq(points, Len(points) - n + 1, Len(points))
    ELSE points

\* datetime.now(): a time later than the time of every update recorded.
Now(locations) ==
    LET times == {locations[b].last_updated : b \in DOMAIN locations}
    IN  IF times = {} THEN 1
        ELSE 1 + (CHOOSE t \in times : \A u \in times : u <= t)

\* The handler body for a request of a driver: the three dictionaries after
\* the call, and the response.
UpdateDriverLocation(locations, history, loads, request, username, timestamp) ==
    LET point  == [timestamp |-> timestamp,
                   latitude  |-> request.latitude,
                   longitude |-> request.longitude,
                   speed     |-> request.speed,
                   direction |-> request.direction]
        points == Append(Get(history, request.bus_id, << >>), point)
        kept   == IF Len(points) > HistoryLimit
                  THEN LastN(points, HistoryLimit) ELSE points
    IN  [bus_locations    |->
             Put(locations, request.bus_id,
                 [latitude       |-> request.latitude,
                  longitude      |-> request.longitude,
                  speed          |-> request.speed,
                  direction      |-> request.direction,
                  accuracy       |-> request.accuracy,
                  altitude       |-> request.altitude,
                  last_updated   |-> timestamp,
                  driver         |-> username,
                  passenger_load |-> request.passenger_load]),
         location_history |-> Put(history, request.bus_id, kept),
         passenger_loads  |-> Put(loads, request.bus_id, request.passenger_load),
         ret              |-> Returns([status    |-> "success",
                                       message   |-> "Location updated",
                                       timestamp |-> timestamp])]

----------------------------------------------------------------------------
(* Inputs *)

BusIds == {BusId(i) : i \in 1..NumBuses}

\* bus_id arguments: the buses of the fleet and an id outside it.
BusArgs == BusIds \cup {BusId(NumBuses + 1)}

RunArgs   == {<< >>, <<TRUE>>, <<FALSE>>}
MsgArgs   == {<< >>, <<"Delayed">>}
CrowdArgs == {<< >>, <<"LIGHT">>, <<"MODERATE">>, <<"HEAVY">>, <<"FULL">>}

AllStopNames ==
    UNION {Range(StopNames(ROUTE_METADATA[r].stops)) : r \in RouteIds}

\* Stop name arguments: every stop of the catalog and a name on no route.
NameArgs == AllStopNames \cup {"Nowhere"}

\* route_id arguments: the routes of the catalog and an id outside it.
RouteArgs == RouteIds \cup {"Route-9"}

\* Speeds (km/h), distances (0.1 km) and traffic factors (0.01) on both
\* sides of every threshold of the confidence heuristic.
SpeedArgs    == {9, 10, 19, 20, 50, 51, 70, 71}
DistanceArgs == {9, 10, 49, 50, 300, 301, 500, 501}
TrafficArgs  == {79, 80, 120, 121, 200, 201}

\* Arguments of the planner's ETA function: speeds in km/h, negative and
\* zero among them, and distances in 0.1 km.
PlannerSpeedArgs    == {-10, 0, 1, 7, 15, 30, 50, 120}
PlannerDistanceArgs == {-10, 0, 1, 5, 30, 150, 500}

\* The buses concurrent calls are made on, and the crowdedness_level
\* arguments of concurrent updates.
RaceBusIds    == {BusId(i) : i \in 1..RaceBuses}
RaceCrowdArgs == {<< >>, <<"HEAVY">>}

\* The start and end parameters of a plan request: absent, empty, stops
\* of both routes (Town Hall and Hospital Square are the two ends of
\* Route-1, Railway Station is on Route-2) and a name on no route.
\* The buses drivers report for, and the requests they send: each bus
\* reports its own position; the load varies.
TrackedBuses == {"Bus-1", "Bus-2"}

LoadArgs == {"empty", "full"}

RoleArgs == {"driver", "passenger"}

LocationRequests ==
    {[bus_id         |-> b,
      latitude       |-> IF b = "Bus-1" THEN 269139 ELSE 269100,
      longitude      |-> IF b = "Bus-1" THEN 758463 ELSE 758300,
      speed          |-> 30,
      direction      |-> "N",
      passenger_load |-> load,
      accuracy       |-> << >>,
      altitude       |-> << >>] : b \in TrackedBuses, load \in LoadArgs}

PlanStartArgs ==
    {<< >>, <<"">>, <<"Town Hall">>, <<"Railway Station">>, <<"Nowhere">>}

PlanEndArgs ==
    {<< >>, <<"">>, <<"Town Hall">>, <<"Hospital Square">>,
     <<"Railway Station">>}

----------------------------------------------------------------------------
(* Initial states *)

NoCall == [op |-> "init"]

\* The program of run_app.py: datasim is imported, which builds the store;
\* no TransportAIModel is constructed.  No file is found at ETA_MODEL_FILE,
\* which leaves eta_model None (InitPlan draws both cases); every call runs
\* to its end before the next one starts, so no thread is in progress.
Init ==
    /\ \E c \in [1..NumBuses -> Tiers] : store = InitialStore(NumBuses, c)
    /\ call = NoCall
    /\ ret  = Returns(<< >>)
    /\ model_file   = "absent"
    /\ model        = "None"
    /\ model_loaded = FALSE
    /\ eta_model    = "None"
    /\ threads      = << >>
    /\ bus_locations = << >>
    /\ location_history = << >>
    /\ passenger_loads = << >>

\* The program of main.py: ai_model = TransportAIModel() sets model None
\* and model_loaded False and calls load_model(); datasim is not imported.
InitEta ==
    /\ store = << >>
    /\ call  = NoCall
    /\ ret   = Returns(<< >>)
    /\ \E file \in {"present", "absent", "corrupt"}, saved \in BOOLEAN :
           LET m == LoadModel(file, "None", FALSE, saved)
           IN  /\ model_file   = m.model_file
               /\ model        = m.model
               /\ model_loaded = m.model_loaded
    /\ eta_model = "None"
    /\ threads   = << >>
    /\ bus_locations = << >>
    /\ location_history = << >>
    /\ passenger_loads = << >>

\* The program of run_app.py with a fleet of n buses: joblib.load finds a
\* model at ETA_MODEL_FILE, or raises FileNotFoundError and eta_model is
\* None.
InitPlanner(n) ==
    /\ \E c \in [1..n -> Tiers] : store = InitialStore(n, c)
    /\ call = NoCall
    /\ ret  = Returns(<< >>)
    /\ model_file   = "absent"
    /\ model        = "None"
    /\ model_loaded = FALSE
    /\ eta_model \in {"None", "Ridge"}
    /\ threads = << >>
    /\ bus_locations = << >>
    /\ location_history = << >>
    /\ passenger_loads = << >>

InitPlan == InitPlanner(PlanBuses)

\* The program of run_app.py serving requests on threads: the store as the
\* module builds it, and no call in progress.
InitRace ==
    /\ \E c \in [1..RaceBuses -> Tiers] : store = InitialStore(RaceBuses, c)
    /\ call = NoCall
    /\ ret  = Returns(<< >>)
    /\ model_file   = "absent"
    /\ model        = "None"
    /\ model_loaded = FALSE
    /\ eta_model    = "None"
    /\ threads      = << >>
    /\ bus_locations = << >>
    /\ location_history = << >>
    /\ passenger_loads = << >>

\* Before any TransportAIModel is constructed: the persisted file is
\* present, absent or corrupt.
InitLoad ==
    /\ store = << >>
    /\ call  = NoCall
    /\ ret   = Returns(<< >>)
    /\ model_file \in {"present", "absent", "corrupt"}
    /\ model        = "None"
    /\ model_loaded = FALSE
    /\ eta_model    = "None"
    /\ threads      = << >>
    /\ bus_locations = << >>
    /\ location_history = << >>
    /\ passenger_loads = << >>

----------------------------------------------------------------------------
(* Operations *)

\* The values random.choice([1, 2]) can return in the call, when the call
\* reaches it.
Picks(s, bus_id, is_running) ==
    IF /\ bus_id \in DOMAIN s
       /\ s[bus_id].assigned_route_id = "N/A"
       /\ Truthy(is_running)
    THEN {1, 2} ELSE {1}

UpdateCall ==
    \E bus_id \in BusArgs, is_running \in RunArgs, status_message \in MsgArgs,
       crowdedness_level \in CrowdArgs :
        \E pick \in Picks(store, bus_id, is_running) :
            LET r == UpdateBusOperationalStatus(store, bus_id, is_running,
                         status_message, crowdedness_level, pick)
            IN  /\ store' = r.store
                /\ ret'   = r.ret
                /\ call'  = [op                |-> "update",
                             bus_id            |-> bus_id,
                             is_running        |-> is_running,
                             status_message    |-> status_message,
                             crowdedness_level |-> crowdedness_level]
                /\ UNCHANGED <<tracking, model_file, model, model_loaded, eta_model, threads>>

GenerateCall ==
    \E num_buses \in 0..NumBuses :
        \E status \in GenerateLiveBusStatus(store, num_buses) :
            /\ ret'  = Returns(status)
            /\ call' = [op |-> "generate", num_buses |-> num_buses]
            /\ UNCHANGED <<tracking, store, model_file, model, model_loaded, eta_model, threads>>

StopsCall ==
    \E route_id \in RouteArgs, start_name \in NameArgs, end_name \in NameArgs :
        /\ ret'  = GetStopsInOrder(route_id, start_name, end_name)
        /\ call' = [op         |-> "stops",
                    route_id   |-> route_id,
                    start_name |-> start_name,
                    end_name   |-> end_name]
        /\ UNCHANGED <<tracking, store, model_file, model, model_loaded, eta_model, threads>>

PredictEtaCall ==
    \E raw \in RawPredictions :
        /\ ret'  = PredictEta(model, model_loaded, raw)
        /\ call' = [op |-> "predict_eta"]
        /\ UNCHANGED <<tracking, store, model_file, model, model_loaded, eta_model, threads>>

PredictWithConfidenceCall ==
    \E speed_kmh \in SpeedArgs, distance_km \in DistanceArgs,
       traffic_factor \in TrafficArgs, raw \in RawPredictions :
        /\ ret'  = PredictEtaWithConfidence(model, model_loaded, speed_kmh,
                       distance_km, traffic_factor, raw)
        /\ call' = [op             |-> "predict_eta_with_confidence",
                    speed_kmh      |-> speed_kmh,
                    distance_km    |-> distance_km,
                    traffic_factor |-> traffic_factor]
        /\ UNCHANGED <<tracking, store, model_file, model, model_loaded, eta_model, threads>>

\* A call of mock_predict_eta(speed, distance).
MockPredictEtaCall ==
    \E speed \in PlannerSpeedArgs, distance \in PlannerDistanceArgs :
        /\ ret'  = MockPredictEta(eta_model, speed, distance)
        /\ call' = [op |-> "mock_predict_eta", speed |-> speed,
                    distance |-> distance]
        /\ UNCHANGED <<tracking, store, model_file, model, model_loaded, eta_model,
                       threads>>

\* GET /api/v1/plan: the handler get_route_plan.  It takes its snapshot of
\* the whole fleet (num_buses=15 in the program, every bus of the store
\* here) once, after the parameters passed the test.
PlanCall ==
    \E start \in PlanStartArgs, end \in PlanEndArgs :
        LET num_buses == Cardinality(DOMAIN store)
            given     == TruthyText(start) /\ TruthyText(end)
            snapshots == IF given
                         THEN PlanSnapshots(store, num_buses, start[1], end[1])
                         ELSE {<< >>}
        IN  \E live_data \in snapshots :
                LET served == IF given
                              THEN {b \in DOMAIN live_data :
                                       \E r \in RouteIds :
                                           Serves(live_data[b], r, start[1], end[1])}
                              ELSE {}
                IN  \E draws \in [served -> Quantiles] :
                        /\ ret'  = GetRoutePlan(eta_model, live_data, num_buses,
                                                start, end, draws)
                        /\ call' = [op |-> "plan", start |-> start, end |-> end]
                        /\ UNCHANGED <<tracking, store, model_file, model, model_loaded,
                                       eta_model, threads>>

\* One iteration of the comprehension that builds BUS_OPERATIONAL_STATUS
\* when datasim is imported: the entry of the next bus is added.
BuildEntry ==
    LET i == Cardinality(DOMAIN store) + 1
    IN  /\ i <= FleetSize
        /\ \E c \in (IF i <= DrawnBuses THEN Tiers ELSE {"LIGHT"}) :
               store' = IF store = << >>
                        THEN BusId(i) :> InitialState(i, c)
                        ELSE store @@ (BusId(i) :> InitialState(i, c))
        /\ UNCHANGED <<tracking, call, ret, model_file, model, model_loaded, eta_model,
                       threads>>

\* POST /driver/location/update.  require_role("driver") answers 403 to a
\* user of another role before the handler runs; the handler has no await
\* and runs to its end on the event loop.
UpdateDriverLocationCall ==
    \E request \in LocationRequests, role \in RoleArgs :
        /\ Now(bus_locations) <= MaxUpdates
        /\ request.bus_id # "Bus-1" =>
               \/ Now(bus_locations) <= OtherWindow
               \/ Now(bus_locations) > MaxUpdates - OtherWindow
        /\ call' = [op |-> "update_driver_location", request |-> request,
                    role |-> role]
        /\ IF role # "driver"
           THEN /\ ret' = Raises("HTTPException 403")
                /\ UNCHANGED tracking
           ELSE LET r == UpdateDriverLocation(bus_locations, location_history,
                             passenger_loads, request, "driver1",
                             Now(bus_locations))
                IN  /\ ret' = r.ret
                    /\ bus_locations'    = r.bus_locations
                    /\ location_history' = r.location_history
                    /\ passenger_loads'  = r.passenger_loads
        /\ UNCHANGED <<store, model_file, model, model_loaded, eta_model,
                       threads>>

----------------------------------------------------------------------------
(* Concurrent calls on the store *)

\* No lock guards the store: a call on a thread advances one statement at a
\* time, and the statements of the calls in progress interleave in any
\* order.  threads[t] holds the call of thread t: its operation, its
\* position pc (the field the next statement reads or writes, "done" after
\* the return), its arguments and its locals.

\* Mutant: the buses of the store share one state dictionary.
WriteFieldShared(s, bus_id, field, value) ==
    [b \in DOMAIN s |-> [s[b] EXCEPT ![field] = value]]

\* state[field] = value on the state of bus_id.
WriteField(s, bus_id, field, value) ==
    [s EXCEPT ![bus_id] = [s[bus_id] EXCEPT ![field] = value]]

\* Thread t is called with update_bus_operational_status(bus_id, ...).
\* before is the state of the bus at the call.
UpdateBegin(t, crowd_args) ==
    /\ t \notin DOMAIN threads
    /\ \E bus_id \in RaceBusIds, is_running \in RunArgs,
          status_message \in MsgArgs, crowdedness_level \in crowd_args :
           threads' = threads @@
               (t :> [op                |-> "update",
                      pc                |-> "test",
                      bus_id            |-> bus_id,
                      is_running        |-> is_running,
                      status_message    |-> status_message,
                      crowdedness_level |-> crowdedness_level,
                      before            |-> store[bus_id],
                      ret               |-> << >>])
    /\ UNCHANGED <<tracking, store, call, ret, model_file, model, model_loaded, eta_model>>

\* The next statement of the update on thread t.
UpdateStep(t) ==
    /\ t \in DOMAIN threads
    /\ threads[t].op = "update"
    /\ threads[t].pc # "done"
    /\ LET w  == threads[t]
           at(pc) == [threads EXCEPT ![t].pc = pc]
       IN  CASE w.pc = "test" ->
                  /\ threads' = IF w.bus_id \in DOMAIN store
                                THEN at("is_running")
                                ELSE [threads EXCEPT ![t].pc = "done",
                                                     ![t].ret = <<FALSE>>]
                  /\ store' = store
             [] w.pc = "is_running" ->
                  /\ store' = IF w.is_running # << >>
                              THEN WriteField(store, w.bus_id, "is_running",
                                              w.is_running[1])
                              ELSE store
                  /\ threads' = at("status_message")
             [] w.pc = "status_message" ->
                  /\ store' = IF w.status_message # << >>
                              THEN WriteField(store, w.bus_id, "status_message",
                                              w.status_message[1])
                              ELSE store
                  /\ threads' = at("crowdedness_level")
             [] w.pc = "crowdedness_level" ->
                  /\ store' = IF w.crowdedness_level # << >>
                              THEN WriteField(store, w.bus_id, "crowdedness_level",
                                              w.crowdedness_level[1])
                              ELSE store
                  /\ threads' = at("assigned_route_id")
             [] w.pc = "assigned_route_id" ->
                  /\ \E pick \in Picks(store, w.bus_id, w.is_running) :
                         store' = IF /\ store[w.bus_id].assigned_route_id = "N/A"
                                     /\ Truthy(w.is_running)
                                  THEN WriteField(store, w.bus_id,
                                           "assigned_route_id", RouteId(pick))
                                  ELSE store
                  /\ threads' = [threads EXCEPT ![t].pc = "done",
                                                ![t].ret = <<TRUE>>]
    /\ UNCHANGED <<tracking, call, ret, model_file, model, model_loaded, eta_model>>

\* Thread t starts the iteration of generate_live_bus_status on bus_id.
\* A local is << >> until the statement that reads the field has run.
GenerateBegin(t) ==
    /\ t \notin DOMAIN threads
    /\ \E bus_id \in RaceBusIds :
           threads' = threads @@
               (t :> [op                |-> "generate",
                      pc                |-> "assigned_route_id",
                      bus_id            |-> bus_id,
                      assigned_route_id |-> << >>,
                      is_running        |-> << >>,
                      status_message    |-> << >>,
                      crowdedness_level |-> << >>])
    /\ UNCHANGED <<tracking, store, call, ret, model_file, model, model_loaded, eta_model>>

\* The next read of the iteration on thread t.  op_state is the state
\* dictionary of the bus itself, so each read sees the store of its moment:
\* the route and is_running first, then status_message and
\* crowdedness_level in the order of the branch taken.
GenerateStep(t) ==
    /\ t \in DOMAIN threads
    /\ threads[t].op = "generate"
    /\ threads[t].pc # "done"
    /\ LET r        == threads[t]
           op_state == store[r.bus_id]
           read(pc) == [threads EXCEPT ![t][r.pc] = <<op_state[r.pc]>>,
                                       ![t].pc = pc]
       IN  CASE r.pc = "assigned_route_id" ->
                  threads' = read("is_running")
             [] r.pc = "is_running" ->
                  threads' = read(IF op_state.is_running
                                  THEN "crowdedness_level"
                                  ELSE "status_message")
             [] r.pc = "status_message" ->
                  threads' = read(IF r.is_running = <<TRUE>>
                                  THEN "done" ELSE "crowdedness_level")
             [] r.pc = "crowdedness_level" ->
                  threads' = read(IF r.is_running = <<TRUE>>
                                  THEN "status_message" ELSE "done")
    /\ UNCHANGED <<tracking, store, call, ret, model_file, model, model_loaded, eta_model>>

----------------------------------------------------------------------------
(* Concurrent constructions of the predictor *)

\* Thread t constructs a TransportAIModel on the shared model_path:
\* __init__ sets model None and model_loaded False and calls load_model().
LoadBegin(t) ==
    /\ t \notin DOMAIN threads
    /\ threads' = threads @@ (t :> [op           |-> "load_model",
                                    pc           |-> "exists",
                                    model        |-> "None",
                                    model_loaded |-> FALSE])
    /\ UNCHANGED <<tracking, store, call, ret, model_file, model, model_loaded, eta_model>>

\* The next step of load_model on thread t: the test os.path.exists, then
\* joblib.load (which raises on a corrupt file), or train_model up to the
\* fitted model and its save_model.
LoadStep(t) ==
    /\ t \in DOMAIN threads
    /\ threads[t].op = "load_model"
    /\ threads[t].pc # "done"
    /\ LET at(pc) == [threads EXCEPT ![t].pc = pc]
       IN  CASE threads[t].pc = "exists" ->
                  /\ threads' = at(IF model_file = "absent" THEN "train"
                                                            ELSE "load")
                  /\ model_file' = model_file
             [] threads[t].pc = "load" ->
                  /\ threads' = IF model_file = "present"
                                THEN [threads EXCEPT ![t].model = "Ridge",
                                                     ![t].model_loaded = TRUE,
                                                     ![t].pc = "done"]
                                ELSE at("train")
                  /\ model_file' = model_file
             [] threads[t].pc = "train" ->
                  /\ threads' = [threads EXCEPT ![t].model = "Ridge",
                                                ![t].pc = "save"]
                  /\ model_file' = model_file
             [] threads[t].pc = "save" ->
                  /\ threads' = at("done")
                  /\ \E saved \in BOOLEAN :
                         model_file' = IF saved THEN "present" ELSE model_file
    /\ UNCHANGED <<tracking, store, call, ret, model, model_loaded, eta_model>>

----------------------------------------------------------------------------
(* Specifications *)

\* The operational store and the synthesizer reading it.
Next == UpdateCall \/ GenerateCall

Spec == Init /\ [][Next]_vars

\* The route catalog's stop-range query.
SpecCatalog == Init /\ [][StopsCall]_vars

\* The ETA predictor.
NextEta == PredictEtaCall \/ PredictWithConfidenceCall

SpecEta == InitEta /\ [][NextEta]_vars

\* The update operation on stores of the data model, in which a bus may
\* carry the sentinel "N/A" in place of the route its index gives it.
InitTyped ==
    /\ \E c \in [1..NumBuses -> Tiers] :
       \E na \in SUBSET BusIds :
           store = [b \in BusIds |->
                       IF b \in na
                       THEN [InitialStore(NumBuses, c)[b]
                                EXCEPT !.assigned_route_id = "N/A"]
                       ELSE InitialStore(NumBuses, c)[b]]
    /\ call = NoCall
    /\ ret  = Returns(<< >>)
    /\ model_file   = "absent"
    /\ model        = "None"
    /\ model_loaded = FALSE
    /\ eta_model    = "None"
    /\ threads      = << >>
    /\ bus_locations = << >>
    /\ location_history = << >>
    /\ passenger_loads = << >>

SpecTyped == InitTyped /\ [][UpdateCall]_vars

\* The synthesizer on the stores of the data model.
SpecTypedSynth == InitTyped /\ [][GenerateCall]_vars

\* The drivers' location updates on the program of main.py.
SpecTracking == InitEta /\ [][UpdateDriverLocationCall]_vars

\* Status updates alone, from the store the module builds.
SpecUpdates == Init /\ [][UpdateCall]_vars

\* The import of datasim: the store of the fifteen buses is built.
InitImport ==
    /\ store = << >>
    /\ call = NoCall
    /\ ret  = Returns(<< >>)
    /\ model_file   = "absent"
    /\ model        = "None"
    /\ model_loaded = FALSE
    /\ eta_model    = "None"
    /\ threads      = << >>
    /\ bus_locations = << >>
    /\ location_history = << >>
    /\ passenger_loads = << >>

SpecImport == InitImport /\ [][BuildEntry]_vars

\* The three operations on the store together: status updates, snapshots
\* and journey plan requests, in any order in which no snapshot or plan
\* request comes right after another one.
NextService ==
    \/ UpdateCall
    \/ call.op \notin {"generate", "plan"} /\ (GenerateCall \/ PlanCall)

SpecService == Init /\ [][NextService]_vars

\* The journey planner on the fleet as the program builds it.  A plan
\* request changes no state of the program, so a later request would meet
\* the store of the first: a behaviour ends with its first request.
FirstPlan == call.op # "plan" /\ PlanCall

SpecPlan == InitPlan /\ [][FirstPlan]_vars

\* The planner's ETA function on its own.
SpecPlannerEta == InitPlanner(NumBuses) /\ [][MockPredictEtaCall]_vars

\* The journey planner after any updates of the store, with no model.
NextFleet == call.op # "plan" /\ (UpdateCall \/ PlanCall)

SpecFleet == Init /\ [][NextFleet]_vars

\* An update on thread 1 and the synthesizer's iteration on thread 2.
NextRace ==
    \/ UpdateBegin(1, CrowdArgs)
    \/ UpdateStep(1)
    \/ GenerateBegin(2)
    \/ GenerateStep(2)

SpecRace == InitRace /\ [][NextRace]_vars

\* An update on each of two threads.
NextWriters ==
    \E t \in {1, 2} : UpdateBegin(t, RaceCrowdArgs) \/ UpdateStep(t)

SpecWriters == InitRace /\ [][NextWriters]_vars

\* Constructions of the predictor on concurrent threads.
NextLoad == \E t \in 1..Loaders : LoadBegin(t) \/ LoadStep(t)

SpecLoad == InitLoad /\ [][NextLoad]_vars

----------------------------------------------------------------------------
(* Properties *)

\* The stop names of the route of a "stops" call.
RouteStopNames(route_id) == Range(StopNames(ROUTE_METADATA[route_id].stops))

\* The last call was get_stops_in_order on a known route with both names
\* on it.
StopsCallOnRoute ==
    /\ call.op = "stops"
    /\ call.route_id \in RouteIds
    /\ call.start_name \in RouteStopNames(call.route_id)
    /\ call.end_name \in RouteStopNames(call.route_id)

\* C1: for a route of the catalog and two stop names on it,
\* get_stops_in_order(R, A, B) returns the same sequence of stops as
\* get_stops_in_order(R, B, A).
C1_StopsSymmetric ==
    StopsCallOnRoute =>
        ret = GetStopsInOrder(call.route_id, call.end_name, call.start_name)

\* C1 witness: the reverse trip over the whole of Route-1 returned three stops.
C1_Witness ==
    /\ call.op = "stops"
    /\ call.route_id = "Route-1"
    /\ call.start_name = "Hospital Square"
    /\ call.end_name = "Town Hall"
    /\ ret.raised = "None"
    /\ Len(ret.value) = 3

\* C2: get_stops_in_order returns exactly the stops whose index i satisfies
\* min(idx_A, idx_B) < i <= max(idx_A, idx_B), in increasing index order;
\* from the first to the last stop of a route that is every stop but the
\* first (Route-1: Main Market, University Gate, Hospital Square), and for
\* A = B it is the empty sequence.
C2_StopsInterval ==
    StopsCallOnRoute =>
        LET stops == ROUTE_METADATA[call.route_id].stops
            at(n) == stops[CHOOSE k \in 1..Len(stops) : stops[k].name = n].index
            lo    == Min(at(call.start_name), at(call.end_name))
            hi    == Max(at(call.start_name), at(call.end_name))
            in(s) == lo < s.index /\ s.index <= hi
        IN  /\ ret.raised = "None"
            /\ ret.value = SelectSeq(stops, in)
            /\ \A k \in 1..(Len(ret.value) - 1) :
                   ret.value[k].index < ret.value[k + 1].index
            /\ (call.start_name = stops[1].name
                    /\ call.end_name = stops[Len(stops)].name)
               => ret.value = Tail(stops)
            /\ (call.route_id = "Route-1" /\ call.start_name = "Town Hall"
                    /\ call.end_name = "Hospital Square")
               => StopNames(ret.value) =
                      <<"Main Market", "University Gate", "Hospital Square">>
            /\ call.start_name = call.end_name => ret.value = << >>

\* C2 witness: Route-1 from Town Hall to Hospital Square returned the three
\* stops after Town Hall.
C2_Witness ==
    /\ call.op = "stops"
    /\ call.route_id = "Route-1"
    /\ call.start_name = "Town Hall"
    /\ call.end_name = "Hospital Square"
    /\ ret.raised = "None"
    /\ StopNames(ret.value) =
           <<"Main Market", "University Gate", "Hospital Square">>

\* The last call was get_stops_in_order on a known route with a name that
\* is on no stop of it.
StopsCallOffRoute ==
    /\ call.op = "stops"
    /\ call.route_id \in RouteIds
    /\ \/ call.start_name \notin RouteStopNames(call.route_id)
       \/ call.end_name \notin RouteStopNames(call.route_id)

\* C3 as stated: on a known route, a start or end name that is on no stop of
\* the route makes the query fail with an error instead of returning a stop
\* sequence.
C3_UnknownStopFails == StopsCallOffRoute => ret.raised # "None"

\* C3 as amended: on a known route, a start or end name that is on no stop
\* of the route makes the query return the empty sequence as a normal
\* result; no error is raised.
C3_UnknownStopEmpty == StopsCallOffRoute => ret = Returns(<< >>)

\* C3 witness: a query on Route-1 for a stop of Route-2 returned normally,
\* with no stops.
C3_Witness ==
    /\ call.op = "stops"
    /\ call.route_id = "Route-1"
    /\ call.start_name = "Town Hall"
    /\ call.end_name = "Railway Station"
    /\ ret.raised = "None"
    /\ ret.value = << >>

\* C4: for a route_id that is not in the catalog, get_stops_in_order returns
\* the empty sequence for any pair of stop names, raises nothing and
\* changes no state.
C4_UnknownRouteEmpty ==
    [][(call'.op = "stops" /\ call'.route_id \notin RouteIds)
           => /\ ret' = Returns(<< >>)
              /\ store' = store
              /\ <<model_file, model, model_loaded, eta_model, threads>>'
                     = <<model_file, model, model_loaded, eta_model, threads>>]_vars

\* C4 witness: a query on an unknown route for two stops of Route-1
\* returned normally, with no stops.
C4_Witness ==
    /\ call.op = "stops"
    /\ call.route_id \notin RouteIds
    /\ call.start_name = "Town Hall"
    /\ call.end_name = "Hospital Square"
    /\ ret.raised = "None"
    /\ ret.value = << >>

\* C5: update_bus_operational_status with a bus_id that is not a key of the
\* store returns False, raises nothing and leaves the whole store unchanged
\* (every bus's fields and the set of keys), whatever fields were passed.
C5_UnknownBusRejected ==
    [][(call'.op = "update" /\ call'.bus_id \notin DOMAIN store)
           => /\ ret' = Returns(FALSE)
              /\ store' = store
              /\ DOMAIN store' = DOMAIN store]_vars

\* C5 witness: an update of a bus outside the fleet, with all three fields
\* supplied, returned False.
C5_Witness ==
    /\ call.op = "update"
    /\ call.bus_id \notin DOMAIN store
    /\ call.is_running = <<TRUE>>
    /\ call.status_message = <<"Delayed">>
    /\ call.crowdedness_level = <<"HEAVY">>
    /\ ret = Returns(FALSE)

\* C6: update_bus_operational_status on a known bus sets, among is_running,
\* status_message and crowdedness_level, exactly the supplied fields to the
\* supplied values and leaves every other one at its previous value; a
\* supplied is_running=False is applied.
C6_PartialUpdate ==
    [][(call'.op = "update" /\ call'.bus_id \in DOMAIN store)
           => LET before == store[call'.bus_id]
                  after  == store'[call'.bus_id]
              IN  /\ ret' = Returns(TRUE)
                  /\ after.is_running =
                         IF call'.is_running = << >>
                         THEN before.is_running ELSE call'.is_running[1]
                  /\ after.status_message =
                         IF call'.status_message = << >>
                         THEN before.status_message
                         ELSE call'.status_message[1]
                  /\ after.crowdedness_level =
                         IF call'.crowdedness_level = << >>
                         THEN before.crowdedness_level
                         ELSE call'.crowdedness_level[1]
                  /\ call'.is_running = <<FALSE>> => after.is_running = FALSE]_vars

\* C6 witness: an update supplying only is_running=False took Bus-1 off
\* duty and left its message "On Route".
C6_Witness ==
    /\ call.op = "update"
    /\ call.bus_id = "Bus-1"
    /\ call.is_running = <<FALSE>>
    /\ call.status_message = << >>
    /\ call.crowdedness_level = << >>
    /\ store["Bus-1"].is_running = FALSE
    /\ store["Bus-1"].status_message = "On Route"

\* C7: an update with is_running=True of a known bus whose assigned_route_id
\* is "N/A" leaves it assigned to Route-1 or Route-2; an update that does
\* not set is_running to True leaves the assignment "N/A".
C7_AutoAssign ==
    [][(/\ call'.op = "update"
        /\ call'.bus_id \in DOMAIN store
        /\ store[call'.bus_id].assigned_route_id = "N/A")
           => IF call'.is_running = <<TRUE>>
              THEN store'[call'.bus_id].assigned_route_id
                       \in {"Route-1", "Route-2"}
              ELSE store'[call'.bus_id].assigned_route_id = "N/A"]_vars

\* C7 witness: Bus-1, which starts on Route-2 or on "N/A", is on Route-1
\* after an update with is_running=True: the update re-assigned it.
C7_Witness ==
    /\ call.op = "update"
    /\ call.bus_id = "Bus-1"
    /\ call.is_running = <<TRUE>>
    /\ store["Bus-1"].assigned_route_id = "Route-1"

\* C8: in every snapshot, each bus whose stored is_running is false has
\* location (0.0, 0.0), passengers 0, speed 0, distance to stop 0,
\* current_stop = next_stop = "Depot", is_running false, and the stored
\* status_message and crowdedness.
C8_OffDutyDepot ==
    call.op = "generate" =>
        \A i \in 1..call.num_buses :
            (BusId(i) \in DOMAIN store /\ ~store[BusId(i)].is_running) =>
                /\ BusId(i) \in DOMAIN ret.value
                /\ LET e == ret.value[BusId(i)]
                   IN  /\ e.location = [latitude |-> 0, longitude |-> 0]
                       /\ e.passengers = 0
                       /\ e.speed_kmh = 0
                       /\ e.distance_to_stop_km = 0
                       /\ e.current_stop = "Depot"
                       /\ e.next_stop_name = "Depot"
                       /\ e.is_running = FALSE
                       /\ e.status_message = store[BusId(i)].status_message
                       /\ e.crowdedness = store[BusId(i)].crowdedness_level

\* C8 witness: a snapshot of Bus-1 taken after updates left it off duty with
\* message "Delayed" and crowdedness "FULL".
C8_Witness ==
    /\ call.op = "generate"
    /\ call.num_buses >= 1
    /\ ~store["Bus-1"].is_running
    /\ store["Bus-1"].status_message = "Delayed"
    /\ store["Bus-1"].crowdedness_level = "FULL"
    /\ ret.value["Bus-1"].current_stop = "Depot"
    /\ ret.value["Bus-1"].status_message = "Delayed"

\* C9: for every running bus of a snapshot the passenger count lies in the
\* range of its stored tier, LIGHT in [5, 20], MODERATE in [30, 45], HEAVY
\* in [50, 60], and is exactly 20 for any other stored tier.
C9_PassengersInTier ==
    call.op = "generate" =>
        \A b \in DOMAIN ret.value :
            ret.value[b].is_running =>
                LET p    == ret.value[b].passengers
                    tier == store[b].crowdedness_level
                IN  CASE tier = "LIGHT"    -> 5 <= p /\ p <= 20
                      [] tier = "MODERATE" -> 30 <= p /\ p <= 45
                      [] tier = "HEAVY"    -> 50 <= p /\ p <= 60
                      [] OTHER             -> p = 20

\* C9 witness: a snapshot in which running Bus-1, stored as MODERATE,
\* carries 45 passengers.
C9_Witness ==
    /\ call.op = "generate"
    /\ call.num_buses >= 1
    /\ store["Bus-1"].is_running
    /\ store["Bus-1"].crowdedness_level = "MODERATE"
    /\ ret.value["Bus-1"].is_running
    /\ ret.value["Bus-1"].passengers = 45

\* C10: whenever predict_eta_with_confidence returns, its confidence_score
\* is between 0.30 and 0.95 inclusive.
C10_ConfidenceRange ==
    (call.op = "predict_eta_with_confidence" /\ ret.raised = "None") =>
        /\ 30 <= ret.value.confidence_score
        /\ ret.value.confidence_score <= 95

\* C10 witness: a prediction for a typical speed, distance and traffic
\* factor returned the confidence 0.95.
C10_Witness ==
    /\ call.op = "predict_eta_with_confidence"
    /\ ret.raised = "None"
    /\ call.speed_kmh = 20
    /\ call.distance_km = 300
    /\ call.traffic_factor = 120
    /\ ret.value.confidence_score = 95

\* The last call was a plan request and the handler answered 200.
PlanAnswered == call.op = "plan" /\ ret.raised = "None" /\ ret.value.status = 200

\* C11: the suggestions of a plan response are in non-decreasing order of
\* the total_journey_min each of them carries.
C11_SuggestionsSorted ==
    PlanAnswered =>
        \A i, j \in 1..Len(ret.value.suggestions) :
            i < j => Float(ret.value.suggestions[i].total_journey_min)
                       <= Float(ret.value.suggestions[j].total_journey_min)

\* C11 witness: a response lists Bus-4 before Bus-2, which the loop met
\* first, because its total is smaller.
C11_Witness ==
    /\ PlanAnswered
    /\ Len(ret.value.suggestions) = 2
    /\ ret.value.suggestions[1].bus_id = "Bus-4"
    /\ ret.value.suggestions[2].bus_id = "Bus-2"
    /\ ret.value.suggestions[1].total_journey_min
           < ret.value.suggestions[2].total_journey_min

\* The (route, bus) pairs of the store that match the request of the last
\* call: the route has both stops, the bus is assigned to it and running.
MatchingPairs ==
    {p \in RouteIds \X DOMAIN store :
        /\ RouteHasBoth(p[1], call.start[1], call.end[1])
        /\ store[p[2]].assigned_route_id = p[1]
        /\ store[p[2]].is_running}

\* C12: a plan response has one suggestion for each (route, bus) pair such
\* that the route has both stops and the bus is running on that route, and
\* no other suggestion; a bus off duty in the store is in no suggestion.
C12_OneSuggestionPerPair ==
    PlanAnswered =>
        LET suggestions == ret.value.suggestions
        IN  /\ {<<suggestions[i].route_id, suggestions[i].bus_id>> :
                   i \in 1..Len(suggestions)} = MatchingPairs
            /\ Len(suggestions) = Cardinality(MatchingPairs)
            /\ \A i \in 1..Len(suggestions) :
                   store[suggestions[i].bus_id].is_running

\* C12 witness: a request on Route-2, to which Bus-1 (running) and Bus-3
\* (off duty) are assigned, is answered with Bus-1 alone.
C12_Witness ==
    /\ PlanAnswered
    /\ call.start = <<"Railway Station">>
    /\ store["Bus-3"].assigned_route_id = "Route-2"
    /\ ~store["Bus-3"].is_running
    /\ Len(ret.value.suggestions) = 1
    /\ ret.value.suggestions[1].bus_id = "Bus-1"

\* The last call was a plan request with both names given that no (route,
\* bus) pair of the store matches.
PlanNoMatch ==
    /\ call.op = "plan"
    /\ TruthyText(call.start)
    /\ TruthyText(call.end)
    /\ MatchingPairs = {}

\* C13: a plan request with non-empty names that no route with a running
\* bus matches is answered normally, with status 200 and an empty list of
\* suggestions.
C13_NoMatchIsEmpty ==
    PlanNoMatch =>
        /\ ret.raised = "None"
        /\ ret.value.status = 200
        /\ ret.value.suggestions = << >>

\* C13 witness: Route-2 has the stop asked for, its only bus has been taken
\* off duty, and the response is an empty list.
C13_Witness ==
    /\ PlanNoMatch
    /\ call.start = <<"Railway Station">>
    /\ call.end = <<"Railway Station">>
    /\ ~store["Bus-1"].is_running
    /\ ret.value.status = 200
    /\ ret.value.suggestions = << >>

\* C14: once the TransportAIModel is constructed, predict_eta returns a
\* prediction and does not raise the model-not-loaded error, whether the
\* persisted file was present, absent or corrupt at start-up.
C14_PredictServesAfterConstruction ==
    call.op = "predict_eta" => ret.raised = "None"

\* C15: the planner's predict_eta(model, speed, distance) raises nothing and
\* returns at least half a minute; with no model it returns
\* 60 * distance / max(speed, 1), or one minute if that is less, whatever
\* the sign of the speed.
C15_FallbackEta ==
    call.op = "mock_predict_eta" =>
        /\ ret.raised = "None"
        /\ ret.value >= 50
        /\ eta_model = "None" =>
               ret.value = Max(100, (600 * call.distance) \div Max(call.speed, 1))

\* C15 witness: with no model, speed 30 and distance 15 km give 30 minutes.
C15_Witness ==
    /\ call.op = "mock_predict_eta"
    /\ eta_model = "None"
    /\ call.speed = 30
    /\ call.distance = 150
    /\ ret = Returns(3000)

\* C16: a value returned by TransportAIModel.predict_eta is at least one
\* minute, whatever the regression's output.
C16_EtaAtLeastOneMinute ==
    (call.op = "predict_eta" /\ ret.raised = "None") => ret.value >= 10

\* C16 witness: with the model loaded, predict_eta returned 1.0, which it
\* does for the raw outputs -2.5, 0 and 0.99.
C16_Witness ==
    /\ call.op = "predict_eta"
    /\ model_loaded
    /\ ret = Returns(10)

\* The four fields of a state of a bus, as the synthesizer's iteration
\* holds them once it has read them all.
FieldsRead(state) ==
    [f \in {"assigned_route_id", "is_running", "status_message",
            "crowdedness_level"} |-> <<state[f]>>]

\* The iteration on thread 2 has read the bus that the update on thread 1
\* is made on.
ReadDuringUpdate ==
    /\ DOMAIN threads = {1, 2}
    /\ threads[2].pc = "done"
    /\ threads[2].bus_id = threads[1].bus_id

\* C17: the fields the synthesizer used for a bus on which an update runs
\* concurrently are all those of the state before the update or all those
\* of the state after it.
C17_ReaderSeesWholeUpdate ==
    ReadDuringUpdate =>
        LET w     == threads[1]
            after == ApplyFields(w.before, w.is_running, w.status_message,
                                 w.crowdedness_level, 1)
            used  == [f \in DOMAIN FieldsRead(w.before) |-> threads[2][f]]
        IN  used = FieldsRead(w.before) \/ used = FieldsRead(after)

\* The threads that are inside train_model.
Training ==
    {t \in DOMAIN threads :
        threads[t].op = "load_model" /\ threads[t].pc \in {"train", "save"}}

\* C18: of the callers that find the model missing or unreadable, at most
\* one is training at any time.
C18_OneTrainingAtATime == Cardinality(Training) <= 1

\* The updates of threads 1 and 2 have both returned, and were made on
\* different buses.
WritersDone ==
    /\ DOMAIN threads = {1, 2}
    /\ threads[1].pc = "done"
    /\ threads[2].pc = "done"
    /\ threads[1].bus_id # threads[2].bus_id

\* The store after the update of thread 1 and then that of thread 2, each
\* run from its call to its return, from the store in which the two buses
\* have the states they had when their updates were called.
WritersInTurn ==
    LET w1 == threads[1]
        w2 == threads[2]
        s0 == [b \in DOMAIN store |->
                  IF b = w1.bus_id THEN w1.before
                  ELSE IF b = w2.bus_id THEN w2.before
                  ELSE store[b]]
        s1 == UpdateBusOperationalStatus(s0, w1.bus_id, w1.is_running,
                  w1.status_message, w1.crowdedness_level, 1).store
    IN  UpdateBusOperationalStatus(s1, w2.bus_id, w2.is_running,
            w2.status_message, w2.crowdedness_level, 1).store

\* C19: a step changes the state of a bus only if it is a step of an
\* update made on that bus, and when two updates on different buses,
\* interleaved in any way, have both returned, the store is the one that
\* running them one after the other gives.
C19_UpdatesIndependent ==
    [][/\ \A b \in DOMAIN store :
              store'[b] # store[b] =>
                  \E t \in DOMAIN threads :
                      /\ threads[t].op = "update"
                      /\ threads[t].bus_id = b
                      /\ threads'[t] # threads[t]
       /\ WritersDone' => store' = WritersInTurn'
      ]_vars

\* C19 witness: two updates on different buses have returned and each has
\* changed the state of its bus.
C19_Witness ==
    /\ WritersDone
    /\ store[threads[1].bus_id] # threads[1].before
    /\ store[threads[2].bus_id] # threads[2].before
    /\ threads[1].ret = <<TRUE>>
    /\ threads[2].ret = <<TRUE>>

\* The number of stops get_stops_in_order returns for the route of a
\* suggestion and the names of the last request.
StopsToTravel(suggestion) ==
    Len(GetStopsInOrder(suggestion.route_id, call.start[1], call.end[1]).value)

\* C20: in every suggestion the total exceeds the ETA to the boarding stop
\* by n times one draw p of random.uniform(4, 8), n being the number of
\* stops get_stops_in_order returns: the total lies between ETA + 4n and
\* ETA + 8n, and equals the ETA when start and end are the same stop.
C20_TotalIsEtaPlusStops ==
    PlanAnswered =>
        \A i \in 1..Len(ret.value.suggestions) :
            LET suggestion == ret.value.suggestions[i]
                n     == StopsToTravel(suggestion)
                eta   == Float(suggestion.eta_to_start_min)
                total == Float(suggestion.total_journey_min)
            IN  /\ \E q \in Quantiles : total = eta + n * Uniform(400, 800, q)
                /\ eta + 400 * n <= total
                /\ total <= eta + 800 * n
                /\ call.start = call.end => total = eta

\* C20 witness: from Town Hall to Hospital Square, three stops away, a
\* suggestion has a total of its ETA and three times 8 minutes.
C20_Witness ==
    /\ PlanAnswered
    /\ call.start = <<"Town Hall">>
    /\ call.end = <<"Hospital Square">>
    /\ \E i \in 1..Len(ret.value.suggestions) :
           /\ StopsToTravel(ret.value.suggestions[i]) = 3
           /\ ret.value.suggestions[i].total_journey_min
                  = ret.value.suggestions[i].eta_to_start_min + 240

\* The stop names of the route the synthesizer resolves route_key to: the
\* route itself when the catalog has it, Route-1 otherwise.
ResolvedStopNames(route_key) ==
    IF route_key \in RouteIds THEN RouteStopNames(route_key)
    ELSE RouteStopNames("Route-1")

\* C21: for every running bus of a snapshot, current_stop is a stop of the
\* bus's route, and next_stop is a stop of the same route that differs from
\* current_stop when the route has two stops or more and is current_stop
\* itself when the route has one stop only.
C21_NextStopDiffers ==
    call.op = "generate" =>
        \A b \in DOMAIN ret.value :
            ret.value[b].is_running =>
                LET e     == ret.value[b]
                    names == ResolvedStopNames(e.route_id)
                IN  /\ e.current_stop \in names
                    /\ e.next_stop_name \in names
                    /\ Cardinality(names) >= 2 => e.next_stop_name # e.current_stop
                    /\ Cardinality(names) = 1 => e.next_stop_name = e.current_stop

\* C21 witness: Bus-1 is reported at Railway Station, heading for Airport
\* Road on the same route.
C21_Witness ==
    /\ call.op = "generate"
    /\ call.num_buses >= 1
    /\ ret.value["Bus-1"].is_running
    /\ ret.value["Bus-1"].route_id = "Route-2"
    /\ ret.value["Bus-1"].current_stop = "Railway Station"
    /\ ret.value["Bus-1"].next_stop_name = "Airport Road"

\* C22: generate_live_bus_status raises nothing, and a running bus whose
\* stored assigned_route_id is not a route of the catalog is reported
\* running with current_stop and next_stop among the stops of Route-1.
C22_DefaultRoute ==
    call.op = "generate" =>
        /\ ret.raised = "None"
        /\ \A b \in DOMAIN ret.value :
               (/\ b \in DOMAIN store
                /\ store[b].is_running
                /\ store[b].assigned_route_id \notin RouteIds) =>
                   /\ ret.value[b].is_running
                   /\ ret.value[b].current_stop \in RouteStopNames("Route-1")
                   /\ ret.value[b].next_stop_name \in RouteStopNames("Route-1")

\* C22 witness: Bus-1, running with "N/A" for a route, is reported at Town
\* Hall heading for Main Market.
C22_Witness ==
    /\ call.op = "generate"
    /\ call.num_buses >= 1
    /\ store["Bus-1"].is_running
    /\ store["Bus-1"].assigned_route_id = "N/A"
    /\ ret.raised = "None"
    /\ ret.value["Bus-1"].current_stop = "Town Hall"
    /\ ret.value["Bus-1"].next_stop_name = "Main Market"

\* C23: a generate_live_bus_status(n) call returns an entry for exactly
\* Bus-1..Bus-n and leaves the operational store as it was, and so does a
\* plan request.  (The route catalog is never assigned to by any operation.)
C23_ReadOnly ==
    [][/\ call'.op = "generate" =>
              /\ DOMAIN ret'.value = {BusId(i) : i \in 1..call'.num_buses}
              /\ store' = store
       /\ call'.op = "plan" => store' = store]_vars

\* C23 witness: a snapshot of the whole fleet taken from a store an update
\* has changed.
C23_Witness ==
    /\ call.op = "generate"
    /\ call.num_buses = NumBuses
    /\ DOMAIN ret.value = BusIds
    /\ store["Bus-1"].status_message = "Delayed"

\* C24: whatever updates (of buses of the fleet or of other ids), snapshots
\* and plan requests were served, the bus ids of the operational store are
\* exactly those of the fleet.
C24_FleetIsFixed == DOMAIN store = BusIds

\* C24 witness: an update of a bus outside the fleet was refused after an
\* update of Bus-1 was applied.
C24_Witness ==
    /\ call.op = "update"
    /\ call.bus_id \notin BusIds
    /\ ret.value = FALSE
    /\ store["Bus-1"].status_message = "Delayed"
    /\ DOMAIN store = BusIds

\* C25: in the store the module builds, Bus-i is running with message
\* "On Route" exactly when i is not a multiple of 3 and is off duty with
\* message "Off Duty" otherwise, it is assigned Route-2 for odd i and Route-1
\* for even i, and 10 of the 15 buses of the finished store are running.
C25_InitialByIndex ==
    /\ \A i \in 1..FleetSize :
           BusId(i) \in DOMAIN store =>
               LET e == store[BusId(i)]
               IN  /\ e.is_running <=> (i % 3 # 0)
                   /\ e.is_running => e.status_message = "On Route"
                   /\ ~e.is_running => e.status_message = "Off Duty"
                   /\ (i % 2 = 1) => e.assigned_route_id = "Route-2"
                   /\ (i % 2 = 0) => e.assigned_route_id = "Route-1"
    /\ Cardinality(DOMAIN store) = FleetSize =>
           /\ DOMAIN store = {BusId(i) : i \in 1..FleetSize}
           /\ Cardinality({b \in DOMAIN store : store[b].is_running}) = 10

\* C25 witness: the finished store, with Bus-15 off duty on Route-2 and
\* Bus-2 running on Route-1 with a drawn tier.
C25_Witness ==
    /\ Cardinality(DOMAIN store) = FleetSize
    /\ ~store["Bus-15"].is_running
    /\ store["Bus-15"].assigned_route_id = "Route-2"
    /\ store["Bus-2"].is_running
    /\ store["Bus-2"].assigned_route_id = "Route-1"
    /\ store["Bus-2"].crowdedness_level = "HEAVY"

\* C26: whatever status updates were applied, every bus is still assigned
\* the route the module gave it (Route-2 for odd i, Route-1 for even i), a
\* route of the catalog; no bus carries "N/A", so no update takes the
\* re-assignment branch.
C26_RouteNeverChanges ==
    \A i \in 1..NumBuses :
        /\ BusId(i) \in DOMAIN store
        /\ store[BusId(i)].assigned_route_id = RouteId((i % 2) + 1)
        /\ store[BusId(i)].assigned_route_id \in RouteIds
        /\ store[BusId(i)].assigned_route_id # "N/A"
        /\ \A is_running \in RunArgs : Picks(store, BusId(i), is_running) = {1}

\* C26 witness: Bus-1 was taken off duty and its message changed, and it is
\* still on Route-2.
C26_Witness ==
    /\ call.op = "update"
    /\ call.bus_id = "Bus-1"
    /\ ret.value = TRUE
    /\ ~store["Bus-1"].is_running
    /\ store["Bus-1"].status_message = "Delayed"
    /\ store["Bus-1"].assigned_route_id = "Route-2"

\* C27: when predict_eta_with_confidence returns, the confidence it had
\* before the clamp lies between 0.40 and 0.95, and the confidence_score
\* returned is that very value, hence not below 0.40.
C27_ClampIsIdle ==
    (call.op = "predict_eta_with_confidence" /\ ret.raised = "None") =>
        LET c == Confidence(call.speed_kmh, call.distance_km,
                            call.traffic_factor)
        IN  /\ 40 <= c /\ c <= 95
            /\ Max(30, Min(95, c)) = c
            /\ ret.value.confidence_score = c
            /\ ret.value.confidence_score >= 40

\* C27 witness: a slow, very short trip in heavy traffic is returned with
\* confidence 0.40.
C27_Witness ==
    /\ call.op = "predict_eta_with_confidence"
    /\ ret.raised = "None"
    /\ call.speed_kmh = 9
    /\ call.distance_km = 9
    /\ call.traffic_factor = 201
    /\ ret.value.confidence_score = 40

\* The points recorded for bus b, none if it never reported.
HistoryOf(b) == Get(location_history, b, << >>)

\* C28: no bus has more than 100 points in location_history.  A location
\* update accepted for bus b leaves b with its previous points minus the
\* oldest ones beyond the limit, in their order, followed by the new point,
\* which bears a later time than all of them; it changes neither the
\* history nor the current location of any other bus.  A refused update
\* changes nothing.
C28_HistoryIsRecentWindow ==
    [][\A b \in TrackedBuses :
          LET before == HistoryOf(b)
              after  == HistoryOf(b)'
              n      == Len(after)
          IN  /\ n <= HistoryLimit
              /\ IF /\ call'.op = "update_driver_location"
                    /\ ret'.raised = "None"
                    /\ call'.request.bus_id = b
                 THEN /\ n = Min(Len(before) + 1, HistoryLimit)
                      /\ after[n].timestamp = ret'.value.timestamp
                      /\ after[n].latitude = call'.request.latitude
                      /\ bus_locations'[b].last_updated = after[n].timestamp
                      /\ \A k \in 1..(n - 1) :
                             /\ after[k] = before[Len(before) - (n - 1) + k]
                             /\ after[k].timestamp < after[n].timestamp
                 ELSE /\ after = before
                      /\ Get(bus_locations, b, << >>)'
                             = Get(bus_locations, b, << >>)]_vars

\* C28 witness: Bus-1 reported 101 times, which dropped its oldest point,
\* and Bus-2 reported afterwards.
C28_Witness ==
    /\ call.op = "update_driver_location"
    /\ ret.raised = "None"
    /\ call.request.bus_id = "Bus-2"
    /\ Len(HistoryOf("Bus-1")) = HistoryLimit
    /\ HistoryOf("Bus-1")[1].timestamp = 2
    /\ HistoryOf("Bus-1")[HistoryLimit].timestamp = HistoryLimit + 1
    /\ Len(HistoryOf("Bus-2")) = 1

====
